---- MODULE Spec2Model ----
(***************************************************************************)
(* Model of ensemble_methods/ddd.py: the DDD controller (predict, update,  *)
(* the drift-detection step) and the PrequentialMetrics tracker it owns.   *)
(* Learners and trackers are heap objects addressed by identity, so that   *)
(* the promotions by reassignment and the deepcopy of the revert rule are  *)
(* visible.  The ensemble learners and the drift detector are opaque       *)
(* collaborators: the number of correct predictions of each learner on a   *)
(* batch and the detector's answer are nondeterministic inputs.            *)
(* Accuracies are exact rationals [n, d]; std is kept as the symbolic      *)
(* square root of var and compared exactly.                                *)
(***************************************************************************)
EXTENDS Integers, Sequences, FiniteSets, TLC

\* Bounds of the exploration
MaxUpdates == 3
MaxBatch == 1

\* Bounds of the exploration of a single tracker: samples per batch and
\* samples in total
MaxSamples == 2
MaxT == 5

\* Bounds of the exploration of a single DiversityWrapper.update: number of
\* known classes, rows of the input batch, largest Poisson count
NumClasses == 3
MaxRows == 2
MaxK == 2

\* None in a learner slot (learner identities start at 1)
None == 0

\* self.y_pred = None
NoPrediction == [n |-> 0, src |-> "None", by |-> <<>>]

(***************************************************************************)
(* Exact arithmetic for the float fields acc, var, std                     *)
(***************************************************************************)
RECURSIVE GCD(_, _)
GCD(a, b) == IF b = 0 THEN a ELSE GCD(b, a % b)

Abs(x) == IF x < 0 THEN -x ELSE x

Rat(n, d) == LET g == GCD(Abs(n), d) IN [n |-> n \div g, d |-> d \div g]

\* Sums and comparisons go through the least common denominator
RAdd(a, b) ==
    LET g == GCD(a.d, b.d)
    IN  Rat(a.n * (b.d \div g) + b.n * (a.d \div g), (a.d \div g) * b.d)

RSub(a, b) ==
    LET g == GCD(a.d, b.d)
    IN  Rat(a.n * (b.d \div g) - b.n * (a.d \div g), (a.d \div g) * b.d)

RMul(a, b) == Rat(a.n * b.n, a.d * b.d)

RDivInt(a, k) == Rat(a.n, a.d * k)

\* a / b for b > 0
RDiv(a, b) == Rat(a.n * b.d, a.d * b.n)

RGt(a, b) ==
    LET g == GCD(a.d, b.d)
    IN  a.n * (b.d \div g) > b.n * (a.d \div g)

Zero == Rat(0, 1)

One == Rat(1, 1)

\* nan is written 0/0
NaN == [n |-> 0, d |-> 0]

\* np.sqrt(var): the symbolic square root of a rational
Sqrt(r) == [sqrtOf |-> r]

\* a - sa > b + sb  where sa, sb are symbolic square roots
LowerExceedsUpper(a, sa, b, sb) ==
    LET d == RSub(a, b)
        e == RSub(RMul(d, d), RAdd(sa.sqrtOf, sb.sqrtOf))
    IN  /\ RGt(d, Zero)
        /\ RGt(e, Zero)
        /\ RGt(RMul(e, e), RMul(Rat(4, 1), RMul(sa.sqrtOf, sb.sqrtOf)))

\* multiplier constant W for the weight of the old low diversity ensemble
W == Rat(1, 10)

\* Sequencing of statements: v is evaluated once and the rest, F, continues
\* from its value
Let(v, F(_)) == CHOOSE r \in {F(x) : x \in {v}} : TRUE

(***************************************************************************)
(* PrequentialMetrics                                                      *)
(***************************************************************************)
\* Variant: a tracker starts with accuracy 0
PrequentialMetrics_init_zero ==
    [acc |-> Zero, var |-> Zero, std |-> Sqrt(Zero), t |-> 0, t_drift |-> 0]

\* PrequentialMetrics.__init__
PrequentialMetrics_init ==
    [acc |-> One, var |-> Zero, std |-> Sqrt(Zero), t |-> 0, t_drift |-> 0]

\* update(y_pred, y_true, drift) where len(y_pred) = n and
\* np.sum(y_pred == y_true) = good
\* As PrequentialMetrics.update, but var is computed from the accuracy
\* held before the call
PrequentialMetrics_update_staleVar(m, good, n, driftArg) ==
    LET t == m.t + n
        batch_accuracy == Rat(good, n)
    IN  IF n = 0 \/ m.acc = NaN
        THEN [acc |-> NaN, var |-> NaN, std |-> Sqrt(NaN), t |-> t,
              t_drift |-> IF driftArg THEN t ELSE m.t_drift]
        ELSE
        IF driftArg
        THEN Let(RDivInt(RMul(m.acc, RSub(One, m.acc)), n), LAMBDA var :
                 [acc |-> batch_accuracy, var |-> var, std |-> Sqrt(var),
                  t |-> t, t_drift |-> t])
        ELSE Let(RDivInt(RMul(m.acc, RSub(One, m.acc)), t - m.t_drift + 1),
                 LAMBDA var :
                 [acc |-> RAdd(m.acc, RDivInt(RSub(batch_accuracy, m.acc),
                                              t - m.t_drift + 1)),
                  var |-> var, std |-> Sqrt(var),
                  t |-> t, t_drift |-> m.t_drift])

\* As PrequentialMetrics.update, but a drift leaves t_drift where it was
PrequentialMetrics_update_keepOrigin(m, good, n, driftArg) ==
    LET t == m.t + n
        batch_accuracy == Rat(good, n)
    IN  IF n = 0 \/ (~driftArg /\ m.acc = NaN)
        THEN [acc |-> NaN, var |-> NaN, std |-> Sqrt(NaN), t |-> t,
              t_drift |-> m.t_drift]
        ELSE
        IF driftArg
        THEN Let(batch_accuracy, LAMBDA acc :
             Let(RDivInt(RMul(acc, RSub(One, acc)), n), LAMBDA var :
                 [acc |-> acc, var |-> var, std |-> Sqrt(var),
                  t |-> t, t_drift |-> m.t_drift]))
        ELSE Let(RAdd(m.acc, RDivInt(RSub(batch_accuracy, m.acc),
                                     t - m.t_drift + 1)), LAMBDA acc :
             Let(RDivInt(RMul(acc, RSub(One, acc)), t - m.t_drift + 1),
                 LAMBDA var :
                 [acc |-> acc, var |-> var, std |-> Sqrt(var),
                  t |-> t, t_drift |-> m.t_drift]))

\* An empty batch makes batch_accuracy 0/0: numpy yields nan (with a
\* warning, no exception), and nan spreads through acc, var and std
PrequentialMetrics_update(m, good, n, driftArg) ==
    LET t == m.t + n
        batch_accuracy == Rat(good, n)
    IN  IF n = 0 \/ (~driftArg /\ m.acc = NaN)
        THEN [acc |-> NaN, var |-> NaN, std |-> Sqrt(NaN), t |-> t,
              t_drift |-> IF driftArg THEN t ELSE m.t_drift]
        ELSE
        IF driftArg
        THEN Let(batch_accuracy, LAMBDA acc :
             Let(RDivInt(RMul(acc, RSub(One, acc)), n), LAMBDA var :
                 [acc |-> acc, var |-> var, std |-> Sqrt(var),
                  t |-> t, t_drift |-> t]))
        ELSE Let(RAdd(m.acc, RDivInt(RSub(batch_accuracy, m.acc),
                                     t - m.t_drift + 1)), LAMBDA acc :
             Let(RDivInt(RMul(acc, RSub(One, acc)), t - m.t_drift + 1),
                 LAMBDA var :
                 [acc |-> acc, var |-> var, std |-> Sqrt(var),
                  t |-> t, t_drift |-> m.t_drift]))

(***************************************************************************)
(* Controller state                                                        *)
(***************************************************************************)
VARIABLES
    mode_before_drift,          \* self.mode_before_drift
    drift,                      \* self.drift
    low_diversity_learner,      \* learner id
    high_diversity_learner,     \* learner id
    old_low_diversity_learner,  \* learner id or None
    old_high_diversity_learner, \* learner id or None
    metric_ol, metric_oh, metric_nl, metric_nh,   \* tracker ids
    wnl, wol, woh,              \* voting weights
    y_pred,                     \* NoPrediction or the stored prediction
    learners,                   \* heap: learner id -> learner object
    trackers,                   \* heap: tracker id -> PrequentialMetrics
    nextLearner, nextTracker,   \* object identities handed out so far
    nUpdates,                   \* number of update calls that returned
    answers,                    \* the detector's answers so far, in order
    call                        \* record of what the last call did

\* A tracker on its own, for the properties of PrequentialMetrics
VARIABLES
    pm,                         \* a PrequentialMetrics object
    pm_call                     \* record of the last call of pm.update

pm_vars == <<pm, pm_call>>

ddd_vars == <<mode_before_drift, drift, low_diversity_learner,
              high_diversity_learner, old_low_diversity_learner,
              old_high_diversity_learner, metric_ol, metric_oh, metric_nl,
              metric_nh, wnl, wol, woh, y_pred, learners, trackers,
              nextLearner, nextTracker, nUpdates, answers, call>>

\* A DiversityWrapper on its own, for the properties of its update.  A row
\* of the input batch is named by its index 1..len(X); ZeroRow names the
\* row np.zeros((1, D)).
VARIABLES
    X, y,                       \* arguments of DiversityWrapper.update
    k,                          \* the counts still to serve, line 47/61
    X_training, y_training,     \* locals of __create_diversity
    pc,                         \* position in DiversityWrapper.update
    fit_call,                   \* arguments given to base_estimator.fit
    draw,                       \* the last Poisson draw as it was drawn
    discarded,                  \* a draw of this call was thrown away
    passes                      \* passes of the inner loop since the draw

dw_vars == <<X, y, k, X_training, y_training, pc, fit_call, draw, discarded,
             passes>>

vars == <<ddd_vars, pm_vars, dw_vars>>

ZeroRow == 0

\* self.list_classes, as in n_classes = np.array(range(0, 2))
list_classes == [i \in 1..NumClasses |-> i - 1]

\* An array variable that may hold None
NoneArray == [none |-> TRUE, rows |-> <<>>]
Array(rows) == [none |-> FALSE, rows |-> rows]

NoFit == [called |-> FALSE, X |-> <<>>, y |-> <<>>]

\* The controller as one record (the object `self`)
Self ==
    [mode_before_drift |-> mode_before_drift, drift |-> drift,
     low_diversity_learner |-> low_diversity_learner,
     high_diversity_learner |-> high_diversity_learner,
     old_low_diversity_learner |-> old_low_diversity_learner,
     old_high_diversity_learner |-> old_high_diversity_learner,
     metric_ol |-> metric_ol, metric_oh |-> metric_oh,
     metric_nl |-> metric_nl, metric_nh |-> metric_nh,
     wnl |-> wnl, wol |-> wol, woh |-> woh, y_pred |-> y_pred,
     learners |-> learners, trackers |-> trackers,
     nextLearner |-> nextLearner, nextTracker |-> nextTracker,
     answers |-> answers, call |-> call]

\* Snapshot of the slots at the start of a call
Slots(s) ==
    [mode_before_drift |-> s.mode_before_drift, drift |-> s.drift,
     low_diversity_learner |-> s.low_diversity_learner,
     high_diversity_learner |-> s.high_diversity_learner,
     old_low_diversity_learner |-> s.old_low_diversity_learner,
     old_high_diversity_learner |-> s.old_high_diversity_learner,
     metric_ol |-> s.metric_ol, metric_oh |-> s.metric_oh,
     metric_nl |-> s.metric_nl, metric_nh |-> s.metric_nh,
     y_pred |-> s.y_pred]

HeldLearners(s) ==
    {s.low_diversity_learner, s.high_diversity_learner,
     s.old_low_diversity_learner, s.old_high_diversity_learner} \ {None}

HeldTrackers(s) == {s.metric_ol, s.metric_oh, s.metric_nl, s.metric_nh}

\* A freshly constructed ensemble: trained on no batch
NewEnsemble == [trained |-> {}]

\* learner.update(X, y_true) on batch number b
Train(heap, id, b) == [heap EXCEPT ![id].trained = @ \cup {b}]

Fitted(s, id) == id # None /\ s.learners[id].trained # {}

\* The log of a call, before the call has done anything
NewCall(op, s, n) ==
    [op |-> op, error |-> "none", n |-> n, pre |-> Slots(s),
     ranDetection |-> FALSE, driftArg |-> FALSE, queries |-> 0,
     detected |-> FALSE, updated |-> <<>>, goods |-> <<>>,
     trained |-> <<>>,
     promoted |-> "none", accNl |-> Zero, accOh |-> Zero,
     modeAfterPromotion |-> s.mode_before_drift,
     recovered |-> "none", consulted |-> <<>>, voted |-> FALSE,
     sum_acc |-> One,
     events |-> <<>>, usedStored |-> FALSE, sources |-> <<>>,
     decision |-> [nl |-> PrequentialMetrics_init,
                   oh |-> PrequentialMetrics_init,
                   ol |-> PrequentialMetrics_init]]

\* PrequentialMetrics()
PM_init ==
    /\ pm = PrequentialMetrics_init
    /\ pm_call = [op |-> "init", n |-> 0, good |-> 0, drift |-> FALSE,
                  pre |-> PrequentialMetrics_init, error |-> "none",
                  sawEmpty |-> FALSE]

\* A DiversityWrapper before any call of update
DW_init ==
    /\ X = <<>> /\ y = <<>> /\ k = <<>> /\ draw = <<>>
    /\ X_training = NoneArray /\ y_training = NoneArray
    /\ pc = "idle"
    /\ fit_call = NoFit
    /\ discarded = FALSE
    /\ passes = 0

Init ==
    /\ PM_init
    /\ DW_init
    /\ mode_before_drift = TRUE
    /\ drift = FALSE
    /\ low_diversity_learner = 1
    /\ high_diversity_learner = 2
    /\ old_low_diversity_learner = None
    /\ old_high_diversity_learner = None
    /\ metric_ol = 1
    /\ metric_oh = 2
    /\ metric_nl = 3
    /\ metric_nh = 4
    /\ wnl = Zero
    /\ wol = Zero
    /\ woh = Zero
    /\ y_pred = NoPrediction
    /\ learners = [i \in {1, 2} |-> NewEnsemble]
    /\ trackers = [i \in 1..4 |-> PrequentialMetrics_init]
    /\ nextLearner = 3
    /\ nextTracker = 5
    /\ nUpdates = 0
    /\ answers = <<>>
    /\ call = NewCall("init", [mode_before_drift |-> TRUE, drift |-> FALSE,
                     low_diversity_learner |-> 1, high_diversity_learner |-> 2,
                     old_low_diversity_learner |-> None,
                     old_high_diversity_learner |-> None,
                     metric_ol |-> 1, metric_oh |-> 2, metric_nl |-> 3,
                     metric_nh |-> 4, y_pred |-> NoPrediction], 0)

(***************************************************************************)
(* DDD.predict                                                             *)
(***************************************************************************)
\* learner.predict / learner.predict_proba: what the call raises, if anything
PredictError(s, id) ==
    IF id = None THEN "AttributeError"
    ELSE IF s.learners[id].trained = {} THEN "NotFittedError"
    ELSE "none"

\* The first error raised when the learners of ids are consulted in order
RECURSIVE FirstError(_, _)
FirstError(s, ids) ==
    IF ids = <<>> THEN "none"
    ELSE IF PredictError(s, Head(ids)) # "none" THEN PredictError(s, Head(ids))
    ELSE FirstError(s, Tail(ids))

\* sum_acc of predict, and the weights it yields; a zero sum_acc makes the
\* float divisions 0.0/0.0, which numpy evaluates to nan
SumAcc(s) ==
    RAdd(RAdd(s.trackers[s.metric_nl].acc,
              RMul(s.trackers[s.metric_ol].acc, W)),
         s.trackers[s.metric_oh].acc)

Weight(x, sum_acc) == IF sum_acc = Zero THEN NaN ELSE RDiv(x, sum_acc)

predict(s, n) ==
    LET c0 == NewCall("predict", s, n)
    IN  IF s.mode_before_drift
        THEN LET ids == <<s.low_diversity_learner>>
                 err == FirstError(s, ids)
             IN  [s EXCEPT
                    !.y_pred = IF err = "none"
                               THEN [n |-> n, src |-> "direct", by |-> ids]
                               ELSE @,
                    !.call = [c0 EXCEPT !.error = err, !.consulted = ids]]
        ELSE LET sum_acc == SumAcc(s)
                 ids == <<s.low_diversity_learner, s.old_low_diversity_learner,
                          s.old_high_diversity_learner>>
                 err == FirstError(s, ids)
             IN  [s EXCEPT
                    !.wnl = Weight(s.trackers[s.metric_nl].acc, sum_acc),
                    !.wol = Weight(RMul(s.trackers[s.metric_ol].acc, W), sum_acc),
                    !.woh = Weight(s.trackers[s.metric_oh].acc, sum_acc),
                    !.y_pred = IF err = "none"
                               THEN [n |-> n, src |-> "vote", by |-> ids]
                               ELSE @,
                    !.call = [c0 EXCEPT !.error = err, !.consulted = ids,
                                        !.voted = TRUE,
                                        !.sum_acc = sum_acc]]

\* Assign the controller record to the variables, dropping the heap
\* objects that no slot refers to any more
Becomes(s) ==
    /\ mode_before_drift' = s.mode_before_drift
    /\ drift' = s.drift
    /\ low_diversity_learner' = s.low_diversity_learner
    /\ high_diversity_learner' = s.high_diversity_learner
    /\ old_low_diversity_learner' = s.old_low_diversity_learner
    /\ old_high_diversity_learner' = s.old_high_diversity_learner
    /\ metric_ol' = s.metric_ol
    /\ metric_oh' = s.metric_oh
    /\ metric_nl' = s.metric_nl
    /\ metric_nh' = s.metric_nh
    /\ wnl' = s.wnl
    /\ wol' = s.wol
    /\ woh' = s.woh
    /\ y_pred' = s.y_pred
    /\ learners' = [i \in HeldLearners(s) |-> s.learners[i]]
    /\ trackers' = [i \in HeldTrackers(s) |-> s.trackers[i]]
    /\ nextLearner' = s.nextLearner
    /\ nextTracker' = s.nextTracker
    /\ answers' = s.answers
    /\ call' = s.call

Predict ==
    /\ \E n \in 1..MaxBatch :
          \E self \in {Self} : \E r \in {predict(self, n)} : Becomes(r)
    /\ UNCHANGED nUpdates
    /\ UNCHANGED <<pm_vars, dw_vars>>

(***************************************************************************)
(* DDD.__drift_detection                                                   *)
(***************************************************************************)
\* Variant: the answer of the current step is handed to the tracker updates
DriftArgument_current(s, det) == det

\* The drift argument handed to the tracker updates of this step; det is
\* the answer the detector gives later in the same step
DriftArgument(s, det) == s.drift

\* metric.update(y_pred, y_true, self.drift) on the tracker object id
TrackerUpdate(s, id, good, n, det) ==
    [s EXCEPT !.trackers[id] =
                  PrequentialMetrics_update(s.trackers[id], good, n,
                                            DriftArgument(s, det)),
              !.call.updated = Append(@, id),
              !.call.goods = Append(@, good),
              !.call.driftArg = DriftArgument(s, det),
              !.call.events = Append(@, "metric")]

\* metric.update(learner.predict(X), y_true, self.drift); an exception
\* raised earlier in the call, or by learner.predict, ends the call
MetricStep(s, metric, learner, good, n, det) ==
    IF s.call.error # "none" THEN s
    ELSE IF PredictError(s, learner) # "none"
         THEN [s EXCEPT !.call.error = PredictError(s, learner)]
         ELSE Let(TrackerUpdate(s, metric, good, n, det), LAMBDA s1 :
                  [s1 EXCEPT !.call.sources = Append(@, learner)])

\* lines 223-227: the trackers that the step updates
UpdateMetrics(s, n, good, det) ==
    Let(TrackerUpdate(s, s.metric_nl, good.nl, n, det), LAMBDA s0 :
    Let([s0 EXCEPT !.call.usedStored = TRUE], LAMBDA s1 :
    Let(MetricStep(s1, s1.metric_nh, s1.high_diversity_learner,
                   good.nh, n, det), LAMBDA s2 :
        IF ~s.mode_before_drift
        THEN Let(MetricStep(s2, s2.metric_oh, s2.old_high_diversity_learner,
                            good.oh, n, det), LAMBDA s3 :
                 MetricStep(s3, s3.metric_ol, s3.old_low_diversity_learner,
                            good.ol, n, det))
        ELSE s2)))

\* line 230: self.drift = self.drift_detector.drift_detection(...)
QueryDetector(s, det) ==
    IF s.call.error # "none" THEN s
    ELSE [s EXCEPT !.drift = det,
                   !.answers = Append(@, det),
                   !.call.queries = @ + 1,
                   !.call.detected = det,
                   !.call.ranDetection = TRUE,
                   !.call.events = Append(@, "query")]

\* Variant: a tie between metric_nl.acc and metric_oh.acc promotes new_low
PromoteNewLow_tie(s) ==
    \/ s.mode_before_drift
    \/ /\ ~s.mode_before_drift
       /\ ~RGt(s.trackers[s.metric_oh].acc, s.trackers[s.metric_nl].acc)

\* line 238: does old_low receive the learner of new_low?
PromoteNewLow(s) ==
    \/ s.mode_before_drift
    \/ /\ ~s.mode_before_drift
       /\ RGt(s.trackers[s.metric_nl].acc, s.trackers[s.metric_oh].acc)

\* lines 238-243: the choice of old_low and metric_ol
ChooseOldLow(s) ==
    IF PromoteNewLow(s)
    THEN [s EXCEPT !.old_low_diversity_learner = s.low_diversity_learner,
                   !.metric_ol = s.metric_nl,
                   !.call.promoted = "new_low"]
    ELSE [s EXCEPT !.old_low_diversity_learner = s.old_high_diversity_learner,
                   !.metric_ol = s.metric_oh,
                   !.call.promoted = "old_high"]

\* Variant: only the tracker is registered, the learner slot is left alone
RegisterOldHigh_trackerOnly(s) == [s EXCEPT !.metric_oh = s.metric_nh]

\* lines 246-247: the high diversity ensemble is registered as old
RegisterOldHigh(s) ==
    [s EXCEPT !.old_high_diversity_learner = s.high_diversity_learner,
              !.metric_oh = s.metric_nh]

\* Variant: no learner is constructed, the slots keep their learners
init_ensemble_keep(s) == s

\* __init_ensemble: two newly constructed learners
init_ensemble(s) ==
    [s EXCEPT !.low_diversity_learner = s.nextLearner,
              !.high_diversity_learner = s.nextLearner + 1,
              !.learners = [i \in DOMAIN s.learners
                                    \cup {s.nextLearner, s.nextLearner + 1} |->
                                IF i \in {s.nextLearner, s.nextLearner + 1}
                                THEN NewEnsemble ELSE s.learners[i]],
              !.nextLearner = s.nextLearner + 2]

\* _, _, self.metric_nl, self.metric_nh = self.__init_metrics(): four
\* trackers are constructed (ol, oh, nl, nh) and the last two are kept
init_metrics(s) ==
    [s EXCEPT !.metric_nl = s.nextTracker + 2,
              !.metric_nh = s.nextTracker + 3,
              !.trackers = [i \in DOMAIN s.trackers
                                    \cup {s.nextTracker + 2, s.nextTracker + 3} |->
                                IF i \in {s.nextTracker + 2, s.nextTracker + 3}
                                THEN PrequentialMetrics_init
                                ELSE s.trackers[i]],
              !.nextTracker = s.nextTracker + 4]

\* line 254
EnterAfterDrift(s) == [s EXCEPT !.mode_before_drift = FALSE]

\* Variant: the promotion does not look at the detector's answer
Promote_always(s) ==
    IF s.call.error # "none" THEN s
    ELSE Let([s EXCEPT !.call.accNl = s.trackers[s.metric_nl].acc,
                       !.call.accOh = s.trackers[s.metric_oh].acc,
                       !.call.events = Append(@, "promote")],
             LAMBDA s0 :
         Let(ChooseOldLow(s0), LAMBDA s1 :
         Let(RegisterOldHigh(s1), LAMBDA s2 :
         Let(init_ensemble(s2), LAMBDA s3 :
         Let(init_metrics(s3), LAMBDA s4 : EnterAfterDrift(s4))))))

\* Variant: old_high is registered before old_low is chosen
Promote_highFirst(s) ==
    IF s.call.error # "none" \/ ~s.drift THEN s
    ELSE Let([s EXCEPT !.call.accNl = s.trackers[s.metric_nl].acc,
                       !.call.accOh = s.trackers[s.metric_oh].acc,
                       !.call.events = Append(@, "promote")],
             LAMBDA s0 :
         Let(RegisterOldHigh(s0), LAMBDA s1 :
         Let(ChooseOldLow(s1), LAMBDA s2 :
         Let(init_ensemble(s2), LAMBDA s3 :
         Let(init_metrics(s3), LAMBDA s4 : EnterAfterDrift(s4))))))

\* lines 232-254: what the step does when the detector reported a drift
Promote(s) ==
    IF s.call.error # "none" \/ ~s.drift THEN s
    ELSE Let([s EXCEPT !.call.accNl = s.trackers[s.metric_nl].acc,
                       !.call.accOh = s.trackers[s.metric_oh].acc,
                       !.call.events = Append(@, "promote")],
             LAMBDA s0 :
         Let(ChooseOldLow(s0), LAMBDA s1 :
         Let(RegisterOldHigh(s1), LAMBDA s2 :
         Let(init_ensemble(s2), LAMBDA s3 :
         Let(init_metrics(s3), LAMBDA s4 : EnterAfterDrift(s4))))))

\* line 257: the new low diversity ensemble is strictly the most accurate
NewLowBest(s) ==
    /\ RGt(s.trackers[s.metric_nl].acc, s.trackers[s.metric_oh].acc)
    /\ RGt(s.trackers[s.metric_nl].acc, s.trackers[s.metric_ol].acc)

\* lines 259-260: acc - std of old_high exceeds acc + std of the others
OldHighBest(s) ==
    LET oh == s.trackers[s.metric_oh]
        nl == s.trackers[s.metric_nl]
        ol == s.trackers[s.metric_ol]
    IN  /\ LowerExceedsUpper(oh.acc, oh.std, nl.acc, nl.std)
        /\ LowerExceedsUpper(oh.acc, oh.std, ol.acc, ol.std)

\* Variant: new_low and metric_nl are made to refer to the objects of
\* old_high and metric_oh, without a copy
Revert_alias(s) ==
    [s EXCEPT !.low_diversity_learner = s.old_high_diversity_learner,
              !.metric_nl = s.metric_oh,
              !.mode_before_drift = TRUE,
              !.call.recovered = "revert"]

\* lines 261-263: deepcopy of old_high and metric_oh into new_low, metric_nl
Revert(s) ==
    [s EXCEPT !.low_diversity_learner = s.nextLearner,
              !.learners = [i \in DOMAIN s.learners \cup {s.nextLearner} |->
                                IF i = s.nextLearner
                                THEN s.learners[s.old_high_diversity_learner]
                                ELSE s.learners[i]],
              !.nextLearner = s.nextLearner + 1,
              !.metric_nl = s.nextTracker,
              !.trackers = [i \in DOMAIN s.trackers \cup {s.nextTracker} |->
                                IF i = s.nextTracker
                                THEN s.trackers[s.metric_oh]
                                ELSE s.trackers[i]],
              !.nextTracker = s.nextTracker + 1,
              !.mode_before_drift = TRUE,
              !.call.recovered = "revert"]

\* What the recovery decision of the step looks at
Decision(s) ==
    [s EXCEPT !.call.modeAfterPromotion = s.mode_before_drift,
              !.call.decision = [nl |-> s.trackers[s.metric_nl],
                                 oh |-> s.trackers[s.metric_oh],
                                 ol |-> s.trackers[s.metric_ol]],
              !.call.events = IF s.call.error = "none"
                              THEN Append(@, "decide") ELSE @]

\* Variant: the false-alarm rule is missing
Recover_noRevert(s) ==
    Let(Decision(s), LAMBDA s0 :
        IF s.call.error # "none" \/ s.mode_before_drift THEN s0
        ELSE IF NewLowBest(s)
             THEN [s0 EXCEPT !.mode_before_drift = TRUE,
                             !.call.recovered = "new_low_best"]
        ELSE s0)

\* lines 256-263
Recover(s) ==
    Let(Decision(s), LAMBDA s0 :
        IF s.call.error # "none" \/ s.mode_before_drift THEN s0
        ELSE IF NewLowBest(s)
             THEN [s0 EXCEPT !.mode_before_drift = TRUE,
                             !.call.recovered = "new_low_best"]
        ELSE IF OldHighBest(s) THEN Revert(s0)
        ELSE s0)

drift_detection(s, n, good, det) ==
    Let(UpdateMetrics(s, n, good, det), LAMBDA s1 :
    Let(QueryDetector(s1, det), LAMBDA s2 :
    Let(Promote(s2), LAMBDA s3 : Recover(s3))))

(***************************************************************************)
(* DDD.update                                                              *)
(***************************************************************************)
\* learner.update(X, y_true) on the learner in a slot, batch number b
TrainStep(s, id, b) ==
    IF s.call.error # "none" THEN s
    ELSE IF id = None THEN [s EXCEPT !.call.error = "AttributeError"]
    ELSE [s EXCEPT !.learners = Train(@, id, b),
                   !.call.trained = Append(@, id),
                   !.call.events = Append(@, "train")]

\* Variant: the old learners are trained when the call started in
\* AfterDrift
TrainAll_startMode(s, b) ==
    Let(TrainStep(s, s.low_diversity_learner, b), LAMBDA s1 :
    Let(TrainStep(s1, s1.high_diversity_learner, b), LAMBDA s2 :
        IF ~s2.call.pre.mode_before_drift
        THEN Let(TrainStep(s2, s2.old_low_diversity_learner, b), LAMBDA s3 :
                 TrainStep(s3, s3.old_high_diversity_learner, b))
        ELSE s2))

\* Variant: the old learners are trained whenever both exist
TrainAll_whenPresent(s, b) ==
    Let(TrainStep(s, s.low_diversity_learner, b), LAMBDA s1 :
    Let(TrainStep(s1, s1.high_diversity_learner, b), LAMBDA s2 :
        IF s2.old_low_diversity_learner # None
           /\ s2.old_high_diversity_learner # None
        THEN Let(TrainStep(s2, s2.old_low_diversity_learner, b), LAMBDA s3 :
                 TrainStep(s3, s3.old_high_diversity_learner, b))
        ELSE s2))

\* lines 269-273
TrainAll(s, b) ==
    Let(TrainStep(s, s.low_diversity_learner, b), LAMBDA s1 :
    Let(TrainStep(s1, s1.high_diversity_learner, b), LAMBDA s2 :
        IF ~s2.mode_before_drift
        THEN Let(TrainStep(s2, s2.old_low_diversity_learner, b), LAMBDA s3 :
                 TrainStep(s3, s3.old_high_diversity_learner, b))
        ELSE s2))

\* line 267
HasPrediction(s) == s.y_pred # NoPrediction

\* Variant: the drift-detection step runs whether or not a prediction is stored
update_alwaysDetect(s, n, good, det, b) ==
    Let([s EXCEPT !.call = NewCall("update", s, n)], LAMBDA s0 :
    Let(drift_detection(s0, n, good, det), LAMBDA s1 : TrainAll(s1, b)))

\* Variant: the learners are trained before the drift-detection step
update_trainFirst(s, n, good, det, b) ==
    Let([s EXCEPT !.call = NewCall("update", s, n)], LAMBDA s0 :
    Let(TrainAll(s0, b), LAMBDA s1 :
        IF HasPrediction(s1) THEN drift_detection(s1, n, good, det) ELSE s1))

update(s, n, good, det, b) ==
    Let([s EXCEPT !.call = NewCall("update", s, n)], LAMBDA s0 :
    Let(IF HasPrediction(s0) THEN drift_detection(s0, n, good, det) ELSE s0,
        LAMBDA s1 : TrainAll(s1, b)))

\* The numbers of correct predictions, on a batch of n samples, of the
\* stored prediction (nl) and of new_high, old_high and old_low
Goods(n, afterDrift) ==
    IF afterDrift
    THEN [nl : 0..n, nh : 0..n, oh : 0..n, ol : 0..n]
    ELSE [nl : 0..n, nh : 0..n, oh : {0}, ol : {0}]

\* An update call with a stored prediction: the labels are those of the
\* batch that was predicted
UpdateAfterPredict ==
    /\ nUpdates < MaxUpdates
    /\ HasPrediction(Self)
    /\ \E good \in Goods(y_pred.n, ~mode_before_drift), det \in BOOLEAN :
          \E self \in {Self} :
            \E r \in {update(self, y_pred.n, good, det, nUpdates + 1)} :
              /\ Becomes(r)
              /\ nUpdates' = IF r.call.error = "none" THEN nUpdates + 1
                             ELSE nUpdates
    /\ UNCHANGED <<pm_vars, dw_vars>>

\* An update call before any prediction is stored (the historical batch)
UpdateFirst ==
    /\ nUpdates < MaxUpdates
    /\ ~HasPrediction(Self)
    /\ \E n \in 1..MaxBatch :
          \E self \in {Self} :
            \E r \in {update(self, n, [nl |-> 0, nh |-> 0, oh |-> 0, ol |-> 0],
                            FALSE, nUpdates + 1)} :
              /\ Becomes(r)
              /\ nUpdates' = IF r.call.error = "none" THEN nUpdates + 1
                             ELSE nUpdates
    /\ UNCHANGED <<pm_vars, dw_vars>>

Next == Predict \/ UpdateFirst \/ UpdateAfterPredict

Spec == Init /\ [][Next]_vars

(***************************************************************************)
(* PrequentialMetrics.update on a tracker of its own: any batch size, the  *)
(* empty batch included, any number of good predictions, any drift flag    *)
(***************************************************************************)
PM_update ==
    /\ \E n \in 0..MaxSamples, d \in BOOLEAN :
          /\ pm.t + n <= MaxT
          /\ \E good \in 0..n :
                /\ pm' = PrequentialMetrics_update(pm, good, n, d)
                /\ pm_call' = [op |-> "update", n |-> n, good |-> good,
                               drift |-> d, pre |-> pm, error |-> "none",
                               sawEmpty |-> pm_call.sawEmpty \/ n = 0]
    /\ UNCHANGED <<ddd_vars, dw_vars>>

NextPM == PM_update

SpecPM == Init /\ [][NextPM]_vars

(***************************************************************************)
(* DiversityWrapper.update, one step per iteration of its loops            *)
(***************************************************************************)
\* np.where(k > 0): the positions with a positive count, in order
Positive(kk) == SelectSeq([i \in 1..Len(kk) |-> i], LAMBDA i : kk[i] > 0)

\* a[pos]
Take(a, pos) == [j \in 1..Len(pos) |-> a[pos[j]]]

\* The loop over self.list_classes from class number i on: one zero row and
\* the label val for every val that is not in y_values
RECURSIVE AppendMissing(_, _, _, _)
AppendMissing(Xf, yf, y_values, i) ==
    IF i > Len(list_classes) THEN [X |-> Xf, y |-> yf]
    ELSE IF list_classes[i] \notin y_values
         THEN AppendMissing(Append(Xf, ZeroRow), Append(yf, list_classes[i]),
                            y_values, i + 1)
         ELSE AppendMissing(Xf, yf, y_values, i + 1)

\* As __preprocess_X_and_y_fit, but the batch is passed on as it is
preprocess_X_and_y_fit_asIs(Xf, yf) == [X |-> Xf, y |-> yf]

preprocess_X_and_y_fit(Xf, yf) ==
    LET y_values == {yf[j] : j \in 1..Len(yf)}
    IN  IF Cardinality(y_values) = Len(list_classes)
        THEN [X |-> Xf, y |-> yf]
        ELSE AppendMissing(Xf, yf, y_values, 1)

\* update(X, y) is called with a non-empty batch whose labels are known
\* classes; __create_diversity starts with nothing selected
DW_update ==
    /\ pc = "idle"
    /\ \E len \in 1..MaxRows :
          \E labels \in [1..len -> {list_classes[c] : c \in 1..NumClasses}] :
             /\ X' = [i \in 1..len |-> i]
             /\ y' = labels
    /\ X_training' = NoneArray /\ y_training' = NoneArray
    /\ k' = <<>> /\ draw' = <<>>
    /\ fit_call' = NoFit
    /\ discarded' = FALSE
    /\ passes' = 0
    /\ pc' = "draw"
    /\ UNCHANGED <<ddd_vars, pm_vars>>

\* One turn of the outer loop up to the test of the inner loop: a count is
\* drawn for every row
DW_draw ==
    /\ pc = "draw"
    /\ \E kk \in [1..Len(X) -> 0..MaxK] :
          /\ k' = kk
          /\ draw' = kk
    /\ X_training' = NoneArray /\ y_training' = NoneArray
    /\ passes' = 0
    /\ pc' = "pass"
    /\ UNCHANGED <<X, y, fit_call, discarded, ddd_vars, pm_vars>>

\* As the pass of the inner loop, but every count is served by this pass
DW_pass_once ==
    /\ pc = "pass"
    /\ Positive(k) # <<>>
    /\ X_training' = Array(X_training.rows \o Take(X, Positive(k)))
    /\ y_training' = Array(y_training.rows \o Take(y, Positive(k)))
    /\ k' = [i \in 1..Len(k) |-> 0]
    /\ passes' = passes + 1
    /\ UNCHANGED <<X, y, pc, fit_call, draw, discarded, ddd_vars, pm_vars>>

\* One pass of the inner loop: the rows whose count is positive are
\* appended once, then every count goes down by one
DW_pass ==
    /\ pc = "pass"
    /\ Positive(k) # <<>>
    /\ X_training' = Array(X_training.rows \o Take(X, Positive(k)))
    /\ y_training' = Array(y_training.rows \o Take(y, Positive(k)))
    /\ k' = [i \in 1..Len(k) |-> k[i] - 1]
    /\ passes' = passes + 1
    /\ UNCHANGED <<X, y, pc, fit_call, draw, discarded, ddd_vars, pm_vars>>

\* The inner loop is over and nothing was selected: the outer loop goes on
DW_redraw ==
    /\ pc = "pass"
    /\ Positive(k) = <<>>
    /\ X_training.none /\ y_training.none
    /\ discarded' = TRUE
    /\ pc' = "draw"
    /\ UNCHANGED <<X, y, k, X_training, y_training, fit_call, draw, passes,
                   ddd_vars, pm_vars>>

\* The inner loop is over and something was selected: __create_diversity
\* returns
DW_return ==
    /\ pc = "pass"
    /\ Positive(k) = <<>>
    /\ ~(X_training.none /\ y_training.none)
    /\ pc' = "preprocess"
    /\ UNCHANGED <<X, y, k, X_training, y_training, fit_call, draw,
                   discarded, passes, ddd_vars, pm_vars>>

\* The class-coverage patch and the call of base_estimator.fit
DW_fit ==
    /\ pc = "preprocess"
    /\ \E r \in {preprocess_X_and_y_fit(X_training.rows, y_training.rows)} :
          fit_call' = [called |-> TRUE, X |-> r.X, y |-> r.y]
    /\ pc' = "idle"
    /\ UNCHANGED <<X, y, k, X_training, y_training, draw, discarded, passes,
                   ddd_vars, pm_vars>>

NextDW == DW_update \/ DW_draw \/ DW_pass \/ DW_redraw \/ DW_return \/ DW_fit

SpecDW == Init /\ [][NextDW]_vars

\* The interpreter goes on executing the loops and the statements after
\* them; nothing is assumed about what the Poisson draw returns
SpecDWFair ==
    /\ Init
    /\ [][NextDW]_vars
    /\ WF_vars(DW_pass)
    /\ WF_vars(DW_return)
    /\ WF_vars(DW_fit)

(***************************************************************************)
(* Properties                                                              *)
(***************************************************************************)
\* The last call was an update call that returned
Updated == call.op = "update" /\ call.error = "none"

\* The last call was an update call in which the detector reported a drift
DriftCall == Updated /\ call.ranDetection /\ call.detected

\* The learners held in the slots when the last call started
PreLearners ==
    {call.pre.low_diversity_learner, call.pre.high_diversity_learner,
     call.pre.old_low_diversity_learner, call.pre.old_high_diversity_learner}

\* C1: whenever the controller is in AfterDrift both old learners are
\* populated, and a predict call that votes never finds one of them missing.
C1_OldPopulated ==
    /\ ~mode_before_drift =>
          /\ old_low_diversity_learner # None
          /\ old_high_diversity_learner # None
    /\ (call.op = "predict" /\ call.voted) => call.error # "AttributeError"

C1_Witness ==
    /\ ~mode_before_drift
    /\ call.op = "predict" /\ call.voted /\ call.error = "none"
    /\ old_low_diversity_learner # None
    /\ old_high_diversity_learner # None

C3_NoDriftNoChange ==
    (\A i \in 1..Len(answers) : ~answers[i]) =>
        /\ mode_before_drift
        /\ low_diversity_learner = 1
        /\ (call.op = "predict" /\ call.error = "none") =>
              /\ ~call.voted
              /\ y_pred.src = "direct"
              /\ y_pred.by = <<1>>

C3_Witness ==
    /\ Len(answers) >= 2
    /\ \A i \in 1..Len(answers) : ~answers[i]
    /\ call.op = "predict" /\ call.error = "none"
    /\ y_pred.by = <<1>>

\* C4: in an update call where the detector reports drift, old_low and
\* metric_ol become the previous new_low and metric_nl if the call started
\* in BeforeDrift or metric_nl.acc > metric_oh.acc after the tracker updates;
\* otherwise (a tie included) they become the previous old_high, metric_oh.
C4_OldLowChoice ==
    DriftCall =>
        IF call.pre.mode_before_drift \/ RGt(call.accNl, call.accOh)
        THEN /\ old_low_diversity_learner = call.pre.low_diversity_learner
             /\ metric_ol = call.pre.metric_nl
        ELSE /\ old_low_diversity_learner = call.pre.old_high_diversity_learner
             /\ metric_ol = call.pre.metric_oh

C4_Witness ==
    /\ DriftCall
    /\ ~call.pre.mode_before_drift
    /\ call.accNl = call.accOh
    /\ old_low_diversity_learner = call.pre.old_high_diversity_learner
    /\ metric_ol = call.pre.metric_oh

\* C5: in every update call where the detector reports drift, old_high and
\* metric_oh become the previous new_high and metric_nh, and old_low was
\* chosen before that, so that it can hold the previous old_high.
C5_OldHighRegistered ==
    DriftCall =>
        /\ old_high_diversity_learner = call.pre.high_diversity_learner
        /\ metric_oh = call.pre.metric_nh
        /\ call.promoted = "old_high" =>
              /\ old_low_diversity_learner = call.pre.old_high_diversity_learner
              /\ metric_ol = call.pre.metric_oh
              /\ old_low_diversity_learner # old_high_diversity_learner

C5_Witness ==
    /\ DriftCall
    /\ call.promoted = "old_high"
    /\ old_high_diversity_learner = call.pre.high_diversity_learner
    /\ old_low_diversity_learner = call.pre.old_high_diversity_learner

\* C6: when an update call in which the detector reported drift returns,
\* new_low and new_high are learners that were in no slot before the call,
\* trained on the batch of this call only, and metric_nl and metric_nh hold
\* the default tracker values.
C6_FreshAfterDrift ==
    DriftCall =>
        /\ low_diversity_learner \notin PreLearners
        /\ high_diversity_learner \notin PreLearners
        /\ low_diversity_learner # high_diversity_learner
        /\ learners[low_diversity_learner].trained = {nUpdates}
        /\ learners[high_diversity_learner].trained = {nUpdates}
        /\ trackers[metric_nl] = PrequentialMetrics_init
        /\ trackers[metric_nh] = PrequentialMetrics_init
        /\ metric_nl \notin {call.pre.metric_nl, call.pre.metric_nh,
                             call.pre.metric_ol, call.pre.metric_oh}

C6_Witness ==
    /\ DriftCall
    /\ ~call.pre.mode_before_drift
    /\ learners[low_diversity_learner].trained = {nUpdates}
    /\ trackers[metric_nl] = PrequentialMetrics_init

\* The detector's answer in the drift-detection step before the last one
\* (false when the last one was the first)
PreviousAnswer ==
    IF Len(answers) >= 2 THEN answers[Len(answers) - 1] ELSE FALSE

\* C7: the drift argument of the tracker updates of a drift-detection step
\* is the detector's answer of the previous step (false for the first),
\* so the update call after a detected drift resets every tracker it
\* updates: acc is the batch accuracy and t_drift is t.
C7_DriftFlagLags ==
    (Updated /\ call.ranDetection) =>
        /\ call.driftArg = PreviousAnswer
        /\ PreviousAnswer =>
              \A i \in 1..Len(call.updated) :
                  call.updated[i] \in DOMAIN trackers =>
                      /\ trackers[call.updated[i]].acc
                            = Rat(call.goods[i], call.n)
                      /\ trackers[call.updated[i]].t_drift
                            = trackers[call.updated[i]].t

C7_Witness ==
    /\ Updated /\ call.ranDetection
    /\ PreviousAnswer
    /\ ~call.detected
    /\ Len(call.updated) = 4
    /\ metric_ol \in {call.updated[i] : i \in 1..4}
    /\ trackers[metric_ol].t_drift = trackers[metric_ol].t
    /\ trackers[metric_ol].t > 0

\* C8: an update call made while no prediction is stored does not query
\* the detector, leaves the trackers, the drift flag and the mode unchanged
\* and trains new_low and new_high only; an update call made with a stored
\* prediction queries the detector exactly once.
C8_SkipWithoutPrediction ==
    [][call'.op = "update" =>
         IF y_pred = NoPrediction
         THEN /\ call'.queries = 0
              /\ call'.updated = <<>>
              /\ UNCHANGED <<trackers, metric_ol, metric_oh, metric_nl,
                             metric_nh, drift, mode_before_drift, answers>>
              /\ call'.trained
                    = <<low_diversity_learner, high_diversity_learner>>
              /\ learners' = Train(Train(learners, low_diversity_learner,
                                         nUpdates'),
                                   high_diversity_learner, nUpdates')
         ELSE /\ call'.queries = 1
              /\ Len(answers') = Len(answers) + 1]_vars

C8_Witness ==
    /\ Updated
    /\ call.pre.y_pred = NoPrediction
    /\ call.queries = 0
    /\ call.trained = <<low_diversity_learner, high_diversity_learner>>

\* C9: in every AfterDrift state the normaliser of predict,
\* metric_nl.acc + W*metric_ol.acc + metric_oh.acc, is strictly positive.
C9_SumAccPositive == ~mode_before_drift => RGt(SumAcc(Self), Zero)

\* The learners that predict would consult in the current mode
Consulted ==
    IF mode_before_drift THEN {low_diversity_learner}
    ELSE {low_diversity_learner, old_low_diversity_learner,
          old_high_diversity_learner}

\* C10: a predict call raises NotFittedError exactly when no update call
\* has returned before it, and then no prediction is stored; once an update
\* call has returned, every learner that predict consults is trained.
C10_NotFittedOnlyBeforeUpdate ==
    /\ call.op = "predict" =>
          /\ call.error = "NotFittedError" <=> nUpdates = 0
          /\ nUpdates = 0 => y_pred = NoPrediction
          /\ nUpdates > 0 => call.error = "none"
    /\ nUpdates > 0 => \A id \in Consulted : Fitted(Self, id)

C10_Witness ==
    /\ call.op = "predict" /\ call.error = "none"
    /\ call.pre.y_pred # NoPrediction
    /\ call.voted
    /\ learners[low_diversity_learner].trained = {nUpdates}

\* The two recovery conditions of lines 257 and 259-260 on the trackers
\* nl, oh, ol
NewLowStrictlyBest(nl, oh, ol) == RGt(nl.acc, oh.acc) /\ RGt(nl.acc, ol.acc)

OldHighClearlyBest(nl, oh, ol) ==
    /\ LowerExceedsUpper(oh.acc, oh.std, nl.acc, nl.std)
    /\ LowerExceedsUpper(oh.acc, oh.std, ol.acc, ol.std)

\* The last call was an update call whose drift-detection step reached the
\* recovery decision in AfterDrift
DecidedAfterDrift ==
    Updated /\ call.ranDetection /\ ~call.modeAfterPromotion

\* C16: in AfterDrift between calls neither recovery condition holds for
\* the current trackers; an update step that starts or becomes AfterDrift
\* ends in BeforeDrift exactly when one of the two conditions holds, and
\* only the second one overwrites new_low and metric_nl with copies of
\* old_high and metric_oh.
C16_RecoveryRule ==
    /\ ~mode_before_drift =>
          /\ ~NewLowStrictlyBest(trackers[metric_nl], trackers[metric_oh],
                                 trackers[metric_ol])
          /\ ~OldHighClearlyBest(trackers[metric_nl], trackers[metric_oh],
                                 trackers[metric_ol])
    /\ DecidedAfterDrift =>
          LET d == call.decision
              first == NewLowStrictlyBest(d.nl, d.oh, d.ol)
              second == OldHighClearlyBest(d.nl, d.oh, d.ol)
          IN  /\ mode_before_drift <=> (first \/ second)
              /\ call.recovered = "new_low_best" <=> first
              /\ call.recovered = "revert" <=> (~first /\ second)
              /\ trackers[metric_oh] = d.oh
              /\ trackers[metric_ol] = d.ol
              /\ call.recovered = "revert" =>
                    /\ trackers[metric_nl] = d.oh
                    /\ learners[low_diversity_learner].trained
                          = learners[old_high_diversity_learner].trained
                              \cup {nUpdates}
              /\ call.recovered # "revert" =>
                    /\ trackers[metric_nl] = d.nl
                    /\ call.detected =>
                          learners[low_diversity_learner].trained = {nUpdates}
                    /\ ~call.detected =>
                          /\ low_diversity_learner
                                = call.pre.low_diversity_learner
                          /\ metric_nl = call.pre.metric_nl

C16_Witness ==
    /\ DecidedAfterDrift
    /\ call.recovered = "revert"
    /\ mode_before_drift
    /\ trackers[metric_nl] = trackers[metric_oh]
    /\ low_diversity_learner # call.pre.low_diversity_learner

\* C17: in an update call where the detector reports drift the freshly
\* reset metric_nl (acc=1, std=0) is compared in the same call: the call
\* ends in AfterDrift iff the promoted metric_ol.acc or metric_oh.acc
\* equals 1, otherwise it returns to BeforeDrift by the rule 'new low
\* strictly best'; the revert rule never fires in such a call.
C17_DriftCallOutcome ==
    DriftCall =>
        /\ call.decision.nl = [acc |-> One, var |-> Zero, std |-> Sqrt(Zero),
                               t |-> 0, t_drift |-> 0]
        /\ call.decision.ol = trackers[metric_ol]
        /\ call.decision.oh = trackers[metric_oh]
        /\ ~mode_before_drift <=> (trackers[metric_ol].acc = One
                                    \/ trackers[metric_oh].acc = One)
        /\ mode_before_drift => call.recovered = "new_low_best"
        /\ call.recovered # "revert"

C17_Witness ==
    /\ DriftCall
    /\ ~mode_before_drift
    /\ trackers[metric_oh].acc = One
    /\ trackers[metric_ol].acc # One

\* The ids in the four learner slots and in the four tracker slots
LearnerSlots ==
    <<low_diversity_learner, high_diversity_learner,
      old_low_diversity_learner, old_high_diversity_learner>>

TrackerSlots == <<metric_nl, metric_nh, metric_ol, metric_oh>>

NoRepetition(a) ==
    \A i, j \in 1..Len(a) : (i # j /\ a[i] # None) => a[i] # a[j]

\* C18: the populated learner slots hold pairwise distinct learner objects
\* and the four tracker slots pairwise distinct tracker objects; after a
\* revert new_low is an independent copy, so training new_low or updating
\* metric_nl never changes old_high or metric_oh; no learner is trained and
\* no tracker is updated twice within one update call.
C18_NoAliasing ==
    /\ NoRepetition(LearnerSlots)
    /\ NoRepetition(TrackerSlots)
    /\ call.op = "update" =>
          /\ NoRepetition(call.trained)
          /\ NoRepetition(call.updated)
    /\ (Updated /\ call.recovered = "revert") =>
          /\ nUpdates \in learners[low_diversity_learner].trained
          /\ nUpdates \notin learners[old_high_diversity_learner].trained
          /\ trackers[metric_oh] = call.decision.oh
    /\ (Updated /\ mode_before_drift
           /\ old_high_diversity_learner # None) =>
          nUpdates \notin learners[old_high_diversity_learner].trained
    /\ (Updated /\ call.pre.mode_before_drift /\ ~call.detected) =>
          /\ \A i \in 1..Len(call.updated) : call.updated[i] # metric_oh
          /\ \A i \in 1..Len(call.trained) :
                call.trained[i] # old_high_diversity_learner

C18_Witness ==
    /\ Updated
    /\ call.recovered = "revert"
    /\ low_diversity_learner # old_high_diversity_learner
    /\ metric_nl # metric_oh
    /\ trackers[metric_nl] = trackers[metric_oh]
    /\ nUpdates \in learners[low_diversity_learner].trained
    /\ nUpdates \notin learners[old_high_diversity_learner].trained

\* C19: within one update call that has a stored prediction, every tracker
\* update (the stored prediction for metric_nl, predictions of new_high,
\* old_high, old_low on the incoming X for the others), the detector query
\* and every promotion and mode decision happen before any learner is
\* trained; the learners trained are the ones occupying the slots after
\* the decisions: new_low and new_high always, old_low and old_high only
\* if the call ends in AfterDrift.
C19_DecideThenTrain ==
    (Updated /\ call.pre.y_pred # NoPrediction) =>
        /\ \A i, j \in 1..Len(call.events) :
              (i < j /\ call.events[i] = "train") => call.events[j] = "train"
        /\ \A i, j \in 1..Len(call.events) :
              (i < j /\ call.events[j] = "metric") =>
                  call.events[i] = "metric"
        /\ Cardinality({i \in 1..Len(call.events) :
                           call.events[i] = "query"}) = 1
        /\ Cardinality({i \in 1..Len(call.events) :
                           call.events[i] = "decide"}) = 1
        /\ call.usedStored
        /\ call.updated
              = IF call.pre.mode_before_drift
                THEN <<call.pre.metric_nl, call.pre.metric_nh>>
                ELSE <<call.pre.metric_nl, call.pre.metric_nh,
                       call.pre.metric_oh, call.pre.metric_ol>>
        /\ call.sources
              = IF call.pre.mode_before_drift
                THEN <<call.pre.high_diversity_learner>>
                ELSE <<call.pre.high_diversity_learner,
                       call.pre.old_high_diversity_learner,
                       call.pre.old_low_diversity_learner>>
        /\ call.trained
              = IF mode_before_drift
                THEN <<low_diversity_learner, high_diversity_learner>>
                ELSE <<low_diversity_learner, high_diversity_learner,
                       old_low_diversity_learner, old_high_diversity_learner>>
        /\ \A i \in 1..Len(call.trained) :
              nUpdates \in learners[call.trained[i]].trained

C19_Witness ==
    /\ Updated /\ call.pre.y_pred # NoPrediction
    /\ call.pre.mode_before_drift
    /\ call.detected
    /\ ~mode_before_drift
    /\ call.events = <<"metric", "metric", "query", "promote", "decide",
                       "train", "train", "train", "train">>
    /\ call.trained = <<low_diversity_learner, high_diversity_learner,
                        old_low_diversity_learner, old_high_diversity_learner>>

\* C20: an update call that starts in BeforeDrift and in which the detector
\* reports no drift leaves old_low, old_high, metric_ol and metric_oh as
\* they were (not trained, not updated, not reassigned) and leaves the mode
\* BeforeDrift; old populations retained after a return to BeforeDrift are
\* not consulted by predict.
C20_OldUntouched ==
    [][/\ (call'.op = "update" /\ mode_before_drift /\ ~call'.detected) =>
            /\ mode_before_drift'
            /\ UNCHANGED <<old_low_diversity_learner,
                           old_high_diversity_learner, metric_ol, metric_oh>>
            /\ trackers'[metric_ol] = trackers[metric_ol]
            /\ trackers'[metric_oh] = trackers[metric_oh]
            /\ old_low_diversity_learner # None =>
                  learners'[old_low_diversity_learner]
                     = learners[old_low_diversity_learner]
            /\ old_high_diversity_learner # None =>
                  learners'[old_high_diversity_learner]
                     = learners[old_high_diversity_learner]
       /\ (call'.op = "predict" /\ mode_before_drift) =>
            /\ call'.consulted = <<low_diversity_learner>>
            /\ ~call'.voted
            /\ old_low_diversity_learner # low_diversity_learner
            /\ old_high_diversity_learner # low_diversity_learner
            /\ UNCHANGED <<learners, trackers>>]_vars

C20_Witness ==
    /\ Updated
    /\ call.pre.mode_before_drift /\ call.ranDetection /\ ~call.detected
    /\ mode_before_drift
    /\ old_low_diversity_learner # None
    /\ old_high_diversity_learner # None
    /\ old_low_diversity_learner = call.pre.old_low_diversity_learner
    /\ nUpdates \notin learners[old_low_diversity_learner].trained

(***************************************************************************)
(* Properties of PrequentialMetrics (specification SpecPM)                 *)
(***************************************************************************)
\* acc * (1 - acc) / den
VarOver(acc, den) == RDivInt(RMul(acc, RSub(One, acc)), den)

\* C11: after any sequence of update calls with non-empty batches,
\* t_drift <= t and var = acc*(1-acc)/(t - t_drift + 1).
C11_VarInvariant ==
    ~pm_call.sawEmpty =>
        /\ pm.t_drift <= pm.t
        /\ pm.var = VarOver(pm.acc, pm.t - pm.t_drift + 1)

\* C11 as amended: after any sequence of update calls with non-empty
\* batches, t_drift <= t; var = acc*(1-acc)/(t - t_drift + 1) holds
\* initially and after an update with drift=false, and after an update with
\* drift=true on n samples var = acc*(1-acc)/n and t_drift = t.
C11_VarByBranch ==
    ~pm_call.sawEmpty =>
        /\ pm.t_drift <= pm.t
        /\ (pm_call.op = "init" \/ ~pm_call.drift) =>
              pm.var = VarOver(pm.acc, pm.t - pm.t_drift + 1)
        /\ (pm_call.op = "update" /\ pm_call.drift) =>
              /\ pm.var = VarOver(pm.acc, pm_call.n)
              /\ pm.t_drift = pm.t

C11_Witness ==
    /\ ~pm_call.sawEmpty
    /\ pm_call.op = "update" /\ pm_call.drift
    /\ pm_call.n = 2
    /\ pm.acc = Rat(1, 2)
    /\ pm.var = Rat(1, 8)
    /\ pm.t - pm.t_drift + 1 = 1

\* C12: update with drift=true on a batch of n >= 1 samples, from any prior
\* tracker state, sets t to the old t plus n, t_drift to the new t, acc to
\* (#correct)/n and var to acc*(1-acc)/n; from the initial state a fully
\* correct 2-sample batch gives acc=1, var=0, t=2, t_drift=2.
C12_DriftReset ==
    (pm_call.op = "update" /\ pm_call.drift /\ pm_call.n >= 1) =>
        /\ pm.t = pm_call.pre.t + pm_call.n
        /\ pm.t_drift = pm.t
        /\ pm.acc = Rat(pm_call.good, pm_call.n)
        /\ pm.var = VarOver(Rat(pm_call.good, pm_call.n), pm_call.n)
        /\ pm.std = Sqrt(pm.var)
        /\ (pm_call.pre = PrequentialMetrics_init
              /\ pm_call.n = 2 /\ pm_call.good = 2) =>
              pm = [acc |-> One, var |-> Zero, std |-> Sqrt(Zero),
                    t |-> 2, t_drift |-> 2]

C12_Witness ==
    /\ pm_call.op = "update" /\ pm_call.drift
    /\ pm_call.pre = PrequentialMetrics_init
    /\ pm_call.n = 2 /\ pm_call.good = 2
    /\ pm.t = 2 /\ pm.t_drift = 2 /\ pm.acc = One /\ pm.var = Zero

\* C13: update called with an empty batch fails with InvalidInput and
\* leaves acc, var, std, t and t_drift unchanged.
C13_EmptyBatchRejected ==
    (pm_call.op = "update" /\ pm_call.n = 0) =>
        /\ pm_call.error = "InvalidInput"
        /\ pm = pm_call.pre

(***************************************************************************)
(* Properties of DiversityWrapper (specifications SpecDW, SpecDWFair)      *)
(***************************************************************************)
\* How many times v occurs in the sequence a
Count(a, v) == Cardinality({j \in 1..Len(a) : a[j] = v})

Classes == {list_classes[c] : c \in 1..NumClasses}

\* The classes missing from the resampled labels
Missing == Classes \ {y_training.rows[j] : j \in 1..Len(y_training.rows)}

Max(kk) == CHOOSE m \in {kk[i] : i \in 1..Len(kk)} :
              \A i \in 1..Len(kk) : kk[i] <= m

C15_Resampled ==
    /\ pc = "draw" => (X_training.none /\ y_training.none)
    /\ pc = "preprocess" =>
          /\ ~X_training.none /\ ~y_training.none
          /\ Len(X_training.rows) >= 1
          /\ \E i \in 1..Len(X) : draw[i] > 0
          /\ \A i \in 1..Len(X) : Count(X_training.rows, i) = draw[i]
          /\ Len(y_training.rows) = Len(X_training.rows)
          /\ \A j \in 1..Len(X_training.rows) :
                /\ X_training.rows[j] \in 1..Len(X)
                /\ y_training.rows[j] = y[X_training.rows[j]]
          /\ passes = Max(draw)

\* C15: the resampling returns a non-empty training set in which each
\* input sample i occurs exactly k_i times, k being the accepted draw; an
\* all-zero draw is discarded and redrawn in full, samples with k_i = 0
\* never appear, and the resampling ends once a draw with a positive count
\* has occurred.
C15_Resampling ==
    /\ []C15_Resampled
    /\ (pc = "pass" /\ \E i \in 1..Len(draw) : draw[i] > 0)
          ~> (pc = "preprocess")

C15_Witness ==
    /\ pc = "preprocess"
    /\ discarded
    /\ Len(X) = 2
    /\ draw = <<0, 2>>
    /\ X_training.rows = <<2, 2>>

====
